---- MODULE Spec2Model ----
(***************************************************************************)
(* Model of src/diarize_audio.py: the command line entry point main(), the *)
(* diarization driver diarize_audio() and the ffmpeg wrapper               *)
(* convert_to_wav().  External collaborators (argparse, the file system,   *)
(* ffmpeg, the pyannote pipeline, the standard streams) are modelled by    *)
(* the outcomes they can deliver to this code.                             *)
(***************************************************************************)
EXTENDS Integers, Sequences, FiniteSets, TLC

VARIABLES argv, env, fs, pc, args, ext, tmp_wav_path, wav_path, diarization,
          segments, speakers, idx, stdout, stderr, exit_code, exc, calls

vars == <<argv, env, fs, pc, args, ext, tmp_wav_path, wav_path, diarization,
          segments, speakers, idx, stdout, stderr, exit_code, exc, calls>>

(***************************************************************************)
(* Bounds and value universes                                              *)
(***************************************************************************)
MaxTurns == 2

NoneVal == "<None>"

\* A path is kept as the pair os.path.splitext() splits it into.
Path(root, e) == [root |-> root, ext |-> e]

InputPaths == {Path("a", ".wav"), Path("b", ".WAV"), Path("c", ".m4a")}

TmpPaths == {Path("tmp1", ".wav"), Path("tmp2", ".wav")}

\* Speaker labels are strings; a string is the sequence of its code points.
Labels == {<<65>>, <<66>>, <<65, 66>>}

\* Turn boundaries in thousandths of a second, start < end.
TurnSpans == {<<0, 125>>, <<125, 3500>>}

Turns == [speaker : Labels, start : {s[1] : s \in TurnSpans}, end : {s[2] : s \in TurnSpans}]

ModelTurns == {t \in Turns : <<t.start, t.end>> \in TurnSpans}

BoundedSeq(S, n) == UNION {[1..k -> S] : k \in 0..n}

FlagValues == {"absent", "", "tok"}

EnvValues == {"unset", "", "tok"}

PositionalLists == {<<>>} \cup {<<p>> : p \in InputPaths} \cup {<<p, p>> : p \in InputPaths}

(***************************************************************************)
(* Pure helpers                                                            *)
(***************************************************************************)
\* str.lower() on the extensions that occur
Lower(e) == IF e = ".WAV" THEN ".wav" ELSE IF e = ".M4A" THEN ".m4a" ELSE e

\* os.path.splitext(file_path)[1].lower()
Ext(file_path) == Lower(file_path.ext)

NeedsConversionAlways(e) == TRUE

\* the test `ext != ".wav"` of steps 1 and 7
NeedsConversion(e) == e # ".wav"

\* os.getenv("HF_TOKEN")
GetEnv(e) == IF e = "unset" THEN NoneVal ELSE e

\* value of args.hf_token: the flag, defaulting to os.getenv("HF_TOKEN")
HfToken(flag, e) == IF flag = "absent" THEN GetEnv(e) ELSE flag

TokenMissingNoneOnly(tok) == tok = NoneVal

\* truth value of `not args.hf_token`
TokenMissing(tok) == tok = NoneVal \/ tok = ""

\* os.path.isfile
IsFile(p, files) == p \in files

\* round(x, 2): thousandths to hundredths, ties to even
Round2(ms) ==
    LET q == ms \div 10
        r == ms % 10
    IN  IF r < 5 THEN q
        ELSE IF r > 5 THEN q + 1
        ELSE IF q % 2 = 0 THEN q ELSE q + 1

\* str comparison: lexicographic on code points
StrLess(a, b) ==
    \E k \in 0..Len(a) :
        /\ k <= Len(b)
        /\ \A i \in 1..k : a[i] = b[i]
        /\ \/ (k = Len(a) /\ k < Len(b))
           \/ (k < Len(a) /\ k < Len(b) /\ a[k + 1] < b[k + 1])

RECURSIVE Sorted(_)
\* sorted(S) of a set of strings
Sorted(S) ==
    IF S = {} THEN <<>>
    ELSE LET m == CHOOSE x \in S : \A y \in S \ {x} : StrLess(x, y)
         IN  <<m>> \o Sorted(S \ {m})

\* step 4: one record per track, in iteration order
ExtractSegments(turns) ==
    [i \in 1..Len(turns) |->
        [speaker |-> turns[i].speaker,
         start |-> Round2(turns[i].start),
         end |-> Round2(turns[i].end)]]

SpeakersNoDedup(segs) == [i \in 1..Len(segs) |-> segs[i].speaker]

\* step 5: sorted({seg["speaker"] for seg in segments})
Speakers(segs) == Sorted({segs[i].speaker : i \in 1..Len(segs)})

Event(op, arg) == [op |-> op, arg |-> arg]

(***************************************************************************)
(* Initial state: a command line, an environment and a file system         *)
(***************************************************************************)
Init ==
    /\ argv \in [pos : PositionalLists, hf_token : FlagValues, help : BOOLEAN]
    /\ env \in EnvValues
    /\ fs \in SUBSET InputPaths
    /\ pc = "parse"
    /\ args = NoneVal
    /\ ext = NoneVal
    /\ tmp_wav_path = NoneVal
    /\ wav_path = NoneVal
    /\ diarization = <<>>
    /\ segments = <<>>
    /\ speakers = <<>>
    /\ idx = 0
    /\ stdout = <<>>
    /\ stderr = <<>>
    /\ exit_code = NoneVal
    /\ exc = NoneVal
    /\ calls = <<>>

(***************************************************************************)
(* main(): argument parsing and validation                                 *)
(***************************************************************************)
Exit(code) ==
    /\ exit_code' = code
    /\ pc' = "exited"

Raise(e) ==
    /\ exc' = e
    /\ pc' = "raised"

\* parser.parse_args(): -h prints the help and exits 0; a command line that
\* does not carry exactly the one positional argument is a usage error,
\* which argparse reports on standard error before exiting with status 2.
ParseArgs ==
    /\ pc = "parse"
    /\ IF argv.help
       THEN /\ stdout' = Append(stdout, [kind |-> "help"])
            /\ Exit(0)
            /\ UNCHANGED <<args, stderr>>
       ELSE IF Len(argv.pos) # 1
       THEN /\ stderr' = Append(stderr, [kind |-> "usage"])
            /\ Exit(2)
            /\ UNCHANGED <<args, stdout>>
       ELSE /\ args' = [audio_file |-> argv.pos[1],
                        hf_token |-> HfToken(argv.hf_token, env)]
            /\ pc' = "validate_file"
            /\ UNCHANGED <<stdout, stderr, exit_code>>
    /\ UNCHANGED <<argv, env, fs, ext, tmp_wav_path, wav_path, diarization,
                   segments, speakers, idx, exc, calls>>

ValidateFileNoExit ==
    /\ pc = "validate_file"
    /\ calls' = Append(calls, Event("validate_file", IsFile(args.audio_file, fs)))
    /\ IF ~IsFile(args.audio_file, fs)
       THEN stderr' = Append(stderr, [kind |-> "file_not_found", path |-> args.audio_file])
       ELSE UNCHANGED stderr
    /\ pc' = "validate_token"
    /\ UNCHANGED <<argv, env, fs, args, ext, tmp_wav_path, wav_path, diarization,
                   segments, speakers, idx, stdout, exit_code, exc>>

\* "Validate audio file"
ValidateFile ==
    /\ pc = "validate_file"
    /\ calls' = Append(calls, Event("validate_file", IsFile(args.audio_file, fs)))
    /\ IF ~IsFile(args.audio_file, fs)
       THEN /\ stderr' = Append(stderr, [kind |-> "file_not_found", path |-> args.audio_file])
            /\ Exit(1)
       ELSE /\ pc' = "validate_token"
            /\ UNCHANGED <<stderr, exit_code>>
    /\ UNCHANGED <<argv, env, fs, args, ext, tmp_wav_path, wav_path, diarization,
                   segments, speakers, idx, stdout, exc>>

ValidateTokenNoExit ==
    /\ pc = "validate_token"
    /\ calls' = Append(calls, Event("validate_token", ~TokenMissing(args.hf_token)))
    /\ IF TokenMissing(args.hf_token)
       THEN stderr' = Append(stderr, [kind |-> "token_remediation"])
       ELSE UNCHANGED stderr
    /\ pc' = "diarize"
    /\ UNCHANGED <<argv, env, fs, args, ext, tmp_wav_path, wav_path, diarization,
                   segments, speakers, idx, stdout, exit_code, exc>>

\* "Validate token"
ValidateToken ==
    /\ pc = "validate_token"
    /\ calls' = Append(calls, Event("validate_token", ~TokenMissing(args.hf_token)))
    /\ IF TokenMissing(args.hf_token)
       THEN /\ stderr' = Append(stderr, [kind |-> "token_remediation"])
            /\ Exit(1)
       ELSE /\ pc' = "diarize"
            /\ UNCHANGED <<stderr, exit_code>>
    /\ UNCHANGED <<argv, env, fs, args, ext, tmp_wav_path, wav_path, diarization,
                   segments, speakers, idx, stdout, exc>>

(***************************************************************************)
(* diarize_audio() and convert_to_wav()                                    *)
(***************************************************************************)
\* step 1: "Ensure WAV input"
EnsureWav ==
    /\ pc = "diarize"
    /\ ext' = Ext(args.audio_file)
    /\ IF NeedsConversion(ext')
       THEN /\ pc' = "convert"
            /\ UNCHANGED wav_path
       ELSE /\ wav_path' = args.audio_file
            /\ pc' = "load"
    /\ UNCHANGED <<argv, env, fs, args, tmp_wav_path, diarization, segments,
                   speakers, idx, stdout, stderr, exit_code, exc, calls>>

\* convert_to_wav: tempfile.NamedTemporaryFile(suffix=".wav", delete=False)
\* creates a file under a name that did not exist.
ConvertCreateTmp ==
    /\ pc = "convert"
    /\ \E p \in TmpPaths \ fs :
        /\ tmp_wav_path' = p
        /\ fs' = fs \cup {p}
        /\ calls' = Append(calls, Event("mktemp", p))
    /\ pc' = "ffmpeg"
    /\ UNCHANGED <<argv, env, args, ext, wav_path, diarization, segments,
                   speakers, idx, stdout, stderr, exit_code, exc>>

FfmpegEvent(outcome) ==
    Event("ffmpeg", [input |-> args.audio_file, output |-> tmp_wav_path, outcome |-> outcome])

ConvertRunFfmpegNoUnlink ==
    /\ pc = "ffmpeg"
    /\ \E outcome \in {"ok", "failed", "oserror"} :
        /\ calls' = Append(calls, FfmpegEvent(outcome))
        /\ IF outcome = "ok"
           THEN /\ wav_path' = tmp_wav_path
                /\ pc' = "load"
                /\ UNCHANGED exc
           ELSE /\ Raise(IF outcome = "failed" THEN "RuntimeError" ELSE "OSError")
                /\ UNCHANGED wav_path
    /\ UNCHANGED <<argv, env, fs, args, ext, tmp_wav_path, diarization, segments,
                   speakers, idx, stdout, stderr, exit_code>>

\* convert_to_wav: subprocess.run(cmd, check=True, ...).  ffmpeg either
\* succeeds, exits with a non-zero status (CalledProcessError, handled by
\* unlinking the temporary file and raising RuntimeError) or cannot be
\* started at all (OSError, which the except clause does not match).
ConvertRunFfmpeg ==
    /\ pc = "ffmpeg"
    /\ \E outcome \in {"ok", "failed", "oserror"} :
        CASE outcome = "ok" ->
                /\ calls' = Append(calls, FfmpegEvent(outcome))
                /\ wav_path' = tmp_wav_path
                /\ pc' = "load"
                /\ UNCHANGED <<fs, exc>>
          [] outcome = "failed" ->
                /\ calls' = calls \o <<FfmpegEvent(outcome), Event("unlink", tmp_wav_path)>>
                /\ fs' = fs \ {tmp_wav_path}
                /\ Raise("RuntimeError")
                /\ UNCHANGED wav_path
          [] outcome = "oserror" ->
                /\ calls' = Append(calls, FfmpegEvent(outcome))
                /\ Raise("OSError")
                /\ UNCHANGED <<fs, wav_path>>
    /\ UNCHANGED <<argv, env, args, ext, tmp_wav_path, diarization, segments,
                   speakers, idx, stdout, stderr, exit_code>>

\* step 2: Pipeline.from_pretrained(...) returns a pipeline or raises
LoadPipeline ==
    /\ pc = "load"
    /\ \E ok \in BOOLEAN :
        /\ calls' = Append(calls, Event("load", ok))
        /\ IF ok
           THEN /\ pc' = "apply"
                /\ UNCHANGED exc
           ELSE Raise("LoadError")
    /\ UNCHANGED <<argv, env, fs, args, ext, tmp_wav_path, wav_path, diarization,
                   segments, speakers, idx, stdout, stderr, exit_code>>

\* step 3: pipeline(wav_path) returns an annotation or raises
ApplyPipeline ==
    /\ pc = "apply"
    /\ \/ \E turns \in BoundedSeq(ModelTurns, MaxTurns) :
            /\ diarization' = turns
            /\ calls' = Append(calls, Event("apply", [path |-> wav_path, ok |-> TRUE]))
            /\ pc' = "extract"
            /\ UNCHANGED exc
       \/ /\ calls' = Append(calls, Event("apply", [path |-> wav_path, ok |-> FALSE]))
          /\ Raise("InferenceError")
          /\ UNCHANGED diarization
    /\ UNCHANGED <<argv, env, fs, args, ext, tmp_wav_path, wav_path, segments,
                   speakers, idx, stdout, stderr, exit_code>>

\* steps 4 and 5
Extract ==
    /\ pc = "extract"
    /\ segments' = ExtractSegments(diarization)
    /\ speakers' = Speakers(segments')
    /\ pc' = "print_header"
    /\ UNCHANGED <<argv, env, fs, args, ext, tmp_wav_path, wav_path, diarization,
                   idx, stdout, stderr, exit_code, exc, calls>>

\* print(): the line reaches standard output, or the write raises
StdoutWrite(line, next) ==
    \E ok \in BOOLEAN :
        IF ok
        THEN /\ stdout' = Append(stdout, line)
             /\ calls' = Append(calls, Event("print", line.kind))
             /\ pc' = next
             /\ UNCHANGED exc
        ELSE /\ Raise("PrintError")
             /\ UNCHANGED <<stdout, calls>>

\* step 6: print(f"\nDetected {len(speakers)} speakers: ...")
WriteHeader ==
    /\ pc = "print_header"
    /\ StdoutWrite([kind |-> "detected", count |-> Len(speakers), speakers |-> speakers],
             "print_title")
    /\ UNCHANGED <<argv, env, fs, args, ext, tmp_wav_path, wav_path, diarization,
                   segments, speakers, idx, stderr, exit_code>>

\* step 6: print("Speaker turns:")
WriteTitle ==
    /\ pc = "print_title"
    /\ StdoutWrite([kind |-> "title"], IF Len(segments) = 0 THEN "cleanup" ELSE "print_turns")
    /\ UNCHANGED <<argv, env, fs, args, ext, tmp_wav_path, wav_path, diarization,
                   segments, speakers, idx, stderr, exit_code>>

\* step 6: one pass of `for seg in segments: print(...)`
WriteTurn ==
    /\ pc = "print_turns"
    /\ idx < Len(segments)
    /\ StdoutWrite([kind |-> "turn",
              speaker |-> segments[idx + 1].speaker,
              start |-> segments[idx + 1].start,
              end |-> segments[idx + 1].end],
             IF idx + 1 = Len(segments) THEN "cleanup" ELSE "print_turns")
    /\ idx' = idx + 1
    /\ UNCHANGED <<argv, env, fs, args, ext, tmp_wav_path, wav_path, diarization,
                   segments, speakers, stderr, exit_code>>

CleanupInputFile ==
    /\ pc = "cleanup"
    /\ IF NeedsConversion(ext)
       THEN /\ fs' = fs \ {args.audio_file}
            /\ calls' = Append(calls, Event("unlink", args.audio_file))
       ELSE UNCHANGED <<fs, calls>>
    /\ pc' = "returned"
    /\ UNCHANGED <<argv, env, args, ext, tmp_wav_path, wav_path, diarization,
                   segments, speakers, idx, stdout, stderr, exit_code, exc>>

\* step 7: "Clean up temporary file if created", then return segments
Cleanup ==
    /\ pc = "cleanup"
    /\ IF NeedsConversion(ext)
       THEN /\ fs' = fs \ {wav_path}
            /\ calls' = Append(calls, Event("unlink", wav_path))
       ELSE UNCHANGED <<fs, calls>>
    /\ pc' = "returned"
    /\ UNCHANGED <<argv, env, args, ext, tmp_wav_path, wav_path, diarization,
                   segments, speakers, idx, stdout, stderr, exit_code, exc>>

(***************************************************************************)
(* main(): the two ways out of the try statement                           *)
(***************************************************************************)
\* diarize_audio returned: main falls off its end, the interpreter exits 0
MainReturn ==
    /\ pc = "returned"
    /\ Exit(0)
    /\ UNCHANGED <<argv, env, fs, args, ext, tmp_wav_path, wav_path, diarization,
                   segments, speakers, idx, stdout, stderr, exc, calls>>

MainExceptNoExit ==
    /\ pc = "raised"
    /\ stderr' = Append(stderr, [kind |-> "diarization_error", exc |-> exc])
    /\ Exit(0)
    /\ UNCHANGED <<argv, env, fs, args, ext, tmp_wav_path, wav_path, diarization,
                   segments, speakers, idx, stdout, exc, calls>>

MainExceptRetry ==
    /\ pc = "raised"
    /\ IF exc = "LoadError" /\ Cardinality({i \in 1..Len(calls) : calls[i].op = "load"}) < 2
       THEN /\ pc' = "load"
            /\ UNCHANGED <<stderr, exit_code>>
       ELSE /\ stderr' = Append(stderr, [kind |-> "diarization_error", exc |-> exc])
            /\ Exit(1)
    /\ UNCHANGED <<argv, env, fs, args, ext, tmp_wav_path, wav_path, diarization,
                   segments, speakers, idx, stdout, exc, calls>>

\* except Exception as e: print(..., file=sys.stderr); sys.exit(1)
MainExcept ==
    /\ pc = "raised"
    /\ stderr' = Append(stderr, [kind |-> "diarization_error", exc |-> exc])
    /\ Exit(1)
    /\ UNCHANGED <<argv, env, fs, args, ext, tmp_wav_path, wav_path, diarization,
                   segments, speakers, idx, stdout, exc, calls>>

Next ==
    \/ ParseArgs
    \/ ValidateFile
    \/ ValidateToken
    \/ EnsureWav
    \/ ConvertCreateTmp
    \/ ConvertRunFfmpeg
    \/ LoadPipeline
    \/ ApplyPipeline
    \/ Extract
    \/ WriteHeader
    \/ WriteTitle
    \/ WriteTurn
    \/ Cleanup
    \/ MainReturn
    \/ MainExcept

Spec == Init /\ [][Next]_vars

(***************************************************************************)
(* Vocabulary of the properties                                            *)
(***************************************************************************)
Called(op) == {i \in 1..Len(calls) : calls[i].op = op}

\* the command line carries exactly one positional argument and no -h
Accepted == ~argv.help /\ Len(argv.pos) = 1

WavInput == Accepted /\ argv.pos[1].ext \in {".wav", ".WAV"}

NonWavInput == Accepted /\ argv.pos[1].ext \notin {".wav", ".WAV"}

TokenUnavailable ==
    \/ argv.hf_token = ""
    \/ argv.hf_token = "absent" /\ env \in {"unset", ""}

FfmpegFailed == \E i \in Called("ffmpeg") : calls[i].arg.outcome = "failed"

FfmpegSucceeded == \E i \in Called("ffmpeg") : calls[i].arg.outcome = "ok"

ModelReturned == \E i \in Called("apply") : calls[i].arg.ok

Finished == pc = "exited"

(***************************************************************************)
(* C1                                                                      *)
(***************************************************************************)
\* C1: when a run in which convert_to_wav created the temporary file has
\* ended, in success or in failure, that temporary file no longer exists.
C1_TmpRemovedWhenRunEnds ==
    Finished => \A i \in Called("mktemp") : calls[i].arg \notin fs

(***************************************************************************)
(* C2                                                                      *)
(***************************************************************************)
\* C2 as stated: a finished run has exit code 1 if the input file is missing,
\* the token is missing or an exception was raised, exit code 0 otherwise,
\* and never any other exit code.
C2_ExitCodeOneOrZero ==
    Finished =>
        exit_code =
            IF \/ \A i \in 1..Len(argv.pos) : ~IsFile(argv.pos[i], fs)
               \/ TokenUnavailable
               \/ exc # NoneVal
            THEN 1 ELSE 0

\* C2 amended: a finished run whose command line the parser accepted has
\* exit code 1 if the input file is missing, the token is missing or an
\* exception was raised, and 0 otherwise; a help request ends with 0 and a
\* rejected command line with 2; no other exit code is produced.
C2_ExitCodes ==
    Finished =>
        exit_code =
            IF argv.help THEN 0
            ELSE IF Len(argv.pos) # 1 THEN 2
            ELSE IF \/ ~IsFile(argv.pos[1], fs)
                    \/ TokenUnavailable
                    \/ exc # NoneVal
            THEN 1 ELSE 0

C2_Witness ==
    /\ Finished
    /\ Accepted
    /\ exc = "InferenceError"
    /\ exit_code = 1

(***************************************************************************)
(* C3                                                                      *)
(***************************************************************************)
\* C3: for an input whose extension is .wav no temporary file is created,
\* the transcoder is never invoked, no file is deleted, and the model is
\* given the input path itself, on every path through diarize_audio.
C3_WavInputUntouched ==
    WavInput =>
        /\ Called("mktemp") = {}
        /\ Called("ffmpeg") = {}
        /\ Called("unlink") = {}
        /\ fs \subseteq InputPaths
        /\ \A i \in Called("apply") : calls[i].arg.path = argv.pos[1]

C3_Witness ==
    /\ Finished
    /\ WavInput
    /\ argv.pos[1].ext = ".WAV"
    /\ ModelReturned
    /\ exit_code = 0

(***************************************************************************)
(* C4                                                                      *)
(***************************************************************************)
\* C4: when the positional path names no existing file, neither transcoder
\* nor model is invoked and no temporary file is created, and the finished
\* run has exit code 1 and a message on standard error that contains the
\* path, whatever the token.
C4_MissingFile ==
    (Accepted /\ ~IsFile(argv.pos[1], fs)) =>
        /\ Called("mktemp") = {}
        /\ Called("ffmpeg") = {}
        /\ Called("load") = {}
        /\ Called("apply") = {}
        /\ fs \subseteq InputPaths
        /\ Finished =>
            /\ exit_code = 1
            /\ \E i \in 1..Len(stderr) :
                /\ stderr[i].kind = "file_not_found"
                /\ stderr[i].path = argv.pos[1]

C4_Witness ==
    /\ Finished
    /\ Accepted
    /\ ~IsFile(argv.pos[1], fs)
    /\ argv.hf_token = "tok"
    /\ exit_code = 1

(***************************************************************************)
(* C5                                                                      *)
(***************************************************************************)
\* C5: when the input file exists and no token is available (flag absent
\* or empty, HF_TOKEN unset or empty), neither transcoder nor model is
\* invoked and no temporary file is created, and the finished run has exit
\* code 1 and the remediation message on standard error.
C5_MissingToken ==
    (/\ Accepted
     /\ IsFile(argv.pos[1], fs)
     /\ argv.hf_token \in {"absent", ""}
     /\ env \in {"unset", ""}) =>
        /\ Called("mktemp") = {}
        /\ Called("ffmpeg") = {}
        /\ Called("load") = {}
        /\ Called("apply") = {}
        /\ fs \subseteq InputPaths
        /\ Finished =>
            /\ exit_code = 1
            /\ \E i \in 1..Len(stderr) : stderr[i].kind = "token_remediation"

C5_Witness ==
    /\ Finished
    /\ Accepted
    /\ IsFile(argv.pos[1], fs)
    /\ argv.hf_token = "absent"
    /\ env = ""
    /\ exit_code = 1

(***************************************************************************)
(* C6                                                                      *)
(***************************************************************************)
\* C6: the reported speaker count is the number of distinct labels among
\* the model's turns, each label listed once in sorted order; exactly one
\* record per turn is returned and printed, in the model's order, with the
\* turn's label unchanged.
C6_SpeakersAndTurns ==
    LET n == Len(diarization)
        labels == {diarization[i].speaker : i \in 1..n}
    IN  /\ pc \in {"print_header", "print_title", "print_turns", "cleanup", "returned"} =>
            /\ Len(segments) = n
            /\ \A i \in 1..n : segments[i].speaker = diarization[i].speaker
            /\ Len(speakers) = Cardinality(labels)
            /\ {speakers[i] : i \in 1..Len(speakers)} = labels
            /\ \A i \in 1..Len(speakers) : \A j \in 1..Len(speakers) :
                    i < j => StrLess(speakers[i], speakers[j])
        /\ pc \in {"cleanup", "returned"} =>
            /\ Len(stdout) = n + 2
            /\ stdout[1].kind = "detected"
            /\ stdout[1].count = Cardinality(labels)
            /\ {stdout[1].speakers[i] : i \in 1..Len(stdout[1].speakers)} = labels
            /\ Len(stdout[1].speakers) = Cardinality(labels)
            /\ \A i \in 1..n :
                /\ stdout[i + 2].kind = "turn"
                /\ stdout[i + 2].speaker = diarization[i].speaker

C6_Witness ==
    /\ pc = "returned"
    /\ Len(diarization) = 2
    /\ diarization[1].speaker = diarization[2].speaker
    /\ Len(speakers) = 1

(***************************************************************************)
(* C7                                                                      *)
(***************************************************************************)
\* C7: once the transcoder process has failed, the temporary file is gone,
\* a conversion error is raised, the model is neither loaded nor invoked,
\* standard output stays empty, and the finished run has exit code 1.
C7_TranscoderFailure ==
    FfmpegFailed =>
        /\ \A i \in Called("mktemp") : calls[i].arg \notin fs
        /\ exc = "RuntimeError"
        /\ pc \in {"raised", "exited"}
        /\ Called("load") = {}
        /\ Called("apply") = {}
        /\ stdout = <<>>
        /\ Finished => exit_code = 1

C7_Witness ==
    /\ Finished
    /\ FfmpegFailed
    /\ exit_code = 1

(***************************************************************************)
(* C8                                                                      *)
(***************************************************************************)
\* C8: the steps occur in the one linear order: the transcoder runs only
\* after both validations passed, the model is loaded and invoked only
\* after the transcoder succeeded on a non-WAV input, results are printed
\* only after the model returned, and the temporary file of a successful
\* conversion is deleted only after the model returned and the results
\* were printed.
C8_LinearOrder ==
    /\ \A i \in Called("mktemp") \cup Called("ffmpeg") :
        /\ \E j \in 1..(i - 1) : calls[j].op = "validate_file" /\ calls[j].arg
        /\ \E j \in 1..(i - 1) : calls[j].op = "validate_token" /\ calls[j].arg
    /\ \A i \in Called("load") \cup Called("apply") :
        /\ \E j \in 1..(i - 1) : calls[j].op = "validate_file" /\ calls[j].arg
        /\ \E j \in 1..(i - 1) : calls[j].op = "validate_token" /\ calls[j].arg
        /\ NonWavInput =>
            \E j \in 1..(i - 1) : calls[j].op = "ffmpeg" /\ calls[j].arg.outcome = "ok"
    /\ \A i \in Called("apply") :
        \E j \in 1..(i - 1) : calls[j].op = "load" /\ calls[j].arg
    /\ \A i \in Called("print") :
        \E j \in 1..(i - 1) : calls[j].op = "apply" /\ calls[j].arg.ok
    /\ (Accepted /\ stdout # <<>>) => ModelReturned
    /\ FfmpegSucceeded =>
        \A i \in Called("unlink") :
            /\ \E j \in 1..(i - 1) : calls[j].op = "apply" /\ calls[j].arg.ok
            /\ \A j \in Called("print") : j < i
            /\ Len(stdout) = Len(diarization) + 2

C8_Witness ==
    /\ Finished
    /\ NonWavInput
    /\ Called("unlink") # {}
    /\ Len(diarization) >= 1
    /\ exit_code = 0

(***************************************************************************)
(* C9                                                                      *)
(***************************************************************************)
\* C9: the transcoder runs at most once and the model is loaded and invoked
\* at most once per run; after the first failure of either nothing further
\* is called, the handler is the only step left, standard output is empty,
\* and the finished run has the message on standard error and exit code 1.
C9_NoRetry ==
    /\ Cardinality(Called("ffmpeg")) <= 1
    /\ Cardinality(Called("load")) <= 1
    /\ Cardinality(Called("apply")) <= 1
    /\ \A i \in 1..Len(calls) :
        (\/ calls[i].op = "ffmpeg" /\ calls[i].arg.outcome # "ok"
         \/ calls[i].op = "load" /\ ~calls[i].arg
         \/ calls[i].op = "apply" /\ ~calls[i].arg.ok) =>
            /\ \A j \in (i + 1)..Len(calls) : calls[j].op = "unlink"
            /\ pc \in {"raised", "exited"}
            /\ exc # NoneVal
            /\ stdout = <<>>
            /\ Finished =>
                /\ exit_code = 1
                /\ \E k \in 1..Len(stderr) :
                    stderr[k].kind = "diarization_error" /\ stderr[k].exc = exc

C9_Witness ==
    /\ Finished
    /\ \E i \in Called("load") : ~calls[i].arg
    /\ exit_code = 1

(***************************************************************************)
(* C10                                                                     *)
(***************************************************************************)
\* C10: every deletion targets a temporary file that convert_to_wav created
\* earlier in the same run, never the input file, and the input file exists
\* at every later point exactly if it existed when main validated it.
C10_InputFileKept ==
    /\ \A i \in Called("unlink") :
        /\ \E j \in 1..(i - 1) : calls[j].op = "mktemp" /\ calls[j].arg = calls[i].arg
        /\ calls[i].arg # argv.pos[1]
    /\ \A i \in Called("validate_file") :
        calls[i].arg = IsFile(argv.pos[1], fs)

C10_Witness ==
    /\ Finished
    /\ Called("unlink") # {}
    /\ IsFile(argv.pos[1], fs)
    /\ exit_code = 0

====
